---- MODULE Spec2Model ----
(***************************************************************************)
(* bookdl: the resumable, chunked download engine.                         *)
(*                                                                         *)
(* Persisted state is the SQLite store (tables downloads and chunks) and   *)
(* the files on disk.  Every CLI command is its own process with its own   *)
(* Manager; an attempt is one call of Manager.StartDownload, modelled step *)
(* by step.  Sizes are in model units: one unit stands for 128 KiB, so the *)
(* 256 KiB checkpoint interval is 2 units.  One step of the read loop is a *)
(* run of Reads (32 KiB buffer) of which only the last can land on a       *)
(* multiple of the interval; it advances the chunk by 1..BufSize units.    *)
(* The chunk size is configurable and is taken small.                      *)
(*                                                                         *)
(* Scope: at most one attempt per Download runs at a time (commands that   *)
(* start an attempt wait for the previous attempt of that Download to      *)
(* return or crash); of the store statements only the first UPDATE of      *)
(* StartDownload and, in ResetSpec, the DELETE of ResetDownload are taken  *)
(* to fail.                                                                *)
(***************************************************************************)
EXTENDS Integers, Sequences, FiniteSets, TLC

\* ---- bounds of the model ------------------------------------------------
\* Downloads in the store
NumDownloads == 3
\* URLs the download command tries (primary and mirrors)
NumUrls == 2
\* cfg.Downloads.ChunkSize, in units
chunkSize == 4
\* most units the read loop advances in one step
BufSize == 2
\* cfg.Network.RetryAttempts
MaxAttempts == 2
\* sizes and chunk sizes given to the chunk planner on its own
MaxPlanSize == 14
MaxPlanChunk == 5
\* attempts and retry configurations given to CalculateBackoff on its own:
\* delays are in whole time units
MaxBackoffAttempt == 3
MaxBaseDelay == 3
MaxMaxDelay == 8
MaxMultiplier == 3
\* largest cfg.MaxAttempts RetryOperation is run with on its own
MaxRetryAttempts == 3

\* largest resource a remote end serves: two chunks, the second one longer
\* than one unit
MaxFileSize == chunkSize + 2

\* ---- program constants ----------------------------------------------------
\* "chunk.Downloaded%(256*1024) == 0": 256 KiB are 2 units
CheckpointInterval == 2
\* the default of downloads.max_concurrent
maxConcurrent == 2
\* "buf := make([]byte, 32*1024)": four read buffers are one unit
BuffersPerUnit == 4

Downloads == 1 .. NumDownloads
\* the Download driven by the single-download commands of Spec
CliDownloads == {1}
Urls == 1 .. NumUrls

Min(a, b) == IF a < b THEN a ELSE b

\* ---- db.DownloadStatus ----------------------------------------------------
StatusPending == "pending"
StatusDownloading == "downloading"
StatusPaused == "paused"
StatusCompleted == "completed"
StatusFailed == "failed"
\* no row in table downloads
NoRow == "none"

\* ---- errors returned by an attempt ("" is nil) ------------------------------
ErrCanceled == "context canceled"
ErrDeadline == "context deadline exceeded"
ErrNetwork == "connection reset"
ErrServer == "server returned 4xx"
ErrHTMLContent == "received HTML content instead of file"
ErrStorage == "storage error"

NoReq == [kind |-> "none", first |-> 0, last |-> 0]
FullReq == [kind |-> "full", first |-> 0, last |-> 0]
RangeReq(a, b) == [kind |-> "range", first |-> a, last |-> b]

VARIABLES
  downloads,   \* table downloads: id -> row
  chunks,      \* table chunks: id -> rows of that Download, by chunk_index
  files,       \* id -> [temp, dest]: whether TempPath exists, and what is at
               \* FilePath: nothing, a file of an earlier command ("kept") or
               \* the file renamed by the running command ("fresh")
  srv,         \* id -> what the remote end serves for the Download's URLs
  active,      \* Manager.active: ids with a registered cancel function
  ctx,         \* id -> context of the running attempt
  att,         \* id -> locals of the attempt (goroutine) of that Download
  out,         \* the message printed by the step just taken
  batch,       \* state of resumeAll / StartConcurrent
  plan,        \* input and output of createChunks (PlanSpec)
  categorized, \* input and output of CategorizeError (CategorizeSpec)
  backoff,     \* input and output of CalculateBackoff (BackoffSpec)
  retry,       \* state of one call of RetryOperation (RetrySpec)
  pausing      \* id -> a pause command has read the row of the Download and
               \* has not called PauseDownload yet

\* the variables of the retry helpers
calc == <<categorized, backoff, retry>>

vars == <<downloads, chunks, files, srv, active, ctx, att, out, batch, plan,
          categorized, backoff, retry, pausing>>

\* createChunks without the truncation of the last chunk
createChunks_untruncated(FileSize, cs) ==
  LET numChunks == (FileSize + cs - 1) \div cs
  IN [k \in 1 .. numChunks |->
        [ChunkIndex |-> k - 1, StartByte |-> (k - 1) * cs,
         EndByte |-> k * cs - 1, Downloaded |-> 0, Status |-> "pending"]]

\* ---- the retry helpers at rest ---------------------------------------------------
NilErr == [text |-> <<>>, timeout |-> FALSE]

NoCategorized == [err |-> NilErr, statusCode |-> 0, done |-> FALSE, category |-> ""]

NoBackoff ==
  [attempt |-> 0, BaseDelay |-> 0, MaxDelay |-> 0, Multiplier |-> 0,
   done |-> FALSE, delay |-> 0]

NoRetry ==
  [pc |-> "none", MaxAttempts |-> 0, attempt |-> 0, calls |-> <<>>,
   lastErr |-> NilErr, statusCode |-> 0, cancelled |-> FALSE, delay |-> 0,
   waits |-> <<>>, result |-> NilErr]

CalcIdle ==
  /\ categorized = NoCategorized
  /\ backoff = NoBackoff
  /\ retry = NoRetry

\* ---- createChunks (part_001:821-841) -----------------------------------------
\* numChunks := (FileSize + chunkSize - 1) / chunkSize, then one chunk per i
createChunks(FileSize, cs) ==
  LET numChunks == (FileSize + cs - 1) \div cs
      chunkAt(i) ==
        LET start == i * cs
            end0 == start + cs - 1
            end == IF end0 >= FileSize THEN FileSize - 1 ELSE end0
        IN [ChunkIndex |-> i, StartByte |-> start, EndByte |-> end,
            Downloaded |-> 0, Status |-> "pending"]
  IN IF numChunks <= 0 THEN <<>> ELSE [k \in 1 .. numChunks |-> chunkAt(k - 1)]

\* ---- store statements (internal/db/downloads.go) -----------------------------
NewRow(size) ==
  [status |-> StatusPending, error_message |-> "", file_size |-> size,
   downloaded_size |-> 0, verified |-> FALSE]

AbsentRow ==
  [status |-> NoRow, error_message |-> "", file_size |-> 0,
   downloaded_size |-> 0, verified |-> FALSE]

UpdateStatus(row, st, msg) ==
  IF row.status = NoRow THEN row
  ELSE [row EXCEPT !.status = st, !.error_message = msg]

MarkCompleted(row) ==
  IF row.status = NoRow THEN row ELSE [row EXCEPT !.status = StatusCompleted]

MarkVerified(row, v) ==
  IF row.status = NoRow THEN row ELSE [row EXCEPT !.verified = v]

\* ResetDownload: the UPDATE of the row; the DELETE of the chunk rows follows
ResetRow(row) ==
  IF row.status = NoRow THEN row
  ELSE [row EXCEPT !.downloaded_size = 0, !.status = StatusPending,
                   !.error_message = ""]

UpdateChunkProgress(rows, k, n) ==
  IF k \in DOMAIN rows THEN [rows EXCEPT ![k].Downloaded = n] ELSE rows

MarkChunkCompleted_lost(rows, k) == rows

MarkChunkCompleted(rows, k) ==
  IF k \in DOMAIN rows THEN [rows EXCEPT ![k].Status = "completed"] ELSE rows

\* ---- locals of an attempt -----------------------------------------------------
\* id: download.ID of the record handed to StartDownload; 0 when the record
\* was never given the id of a row. supportsRange and FileSize: what
\* checkRangeSupport returned
IdleAtt ==
  [id |-> 0, pc |-> "idle", caller |-> "", url |-> 1, FileSize |-> 0,
   DownloadedSize |-> 0, chunks |-> <<>>, idx |-> 0, startPos |-> 0,
   attempt |-> 0, body |-> 0, lastErr |-> "", err |-> "", req |-> NoReq,
   mode |-> "", supportsRange |-> FALSE]

\* body: how much of a simple-mode response body the temp file holds
NoFiles == [temp |-> FALSE, dest |-> "none", body |-> "none"]

\* a file that is at FilePath when a command starts was put there earlier
Keep(f) == [f EXCEPT !.dest = IF @ = "none" THEN "none" ELSE "kept"]

LiveCtx == [err |-> "", deadline |-> FALSE]

NoOut == [cmd |-> "", id |-> 0, msg |-> ""]
Say(c, d, m) == [cmd |-> c, id |-> d, msg |-> m]

\* resumeAll: its list of Downloads, the results slice, the semaphore (slots
\* held), the WaitGroup counter, the index of the results loop, the number
\* of StartDownload calls made for each Download and the statuses progressFn
\* was called with for each Download, in the order of the calls
NoBatch == [pc |-> "none", list |-> <<>>, results |-> <<>>, sem |-> 0,
            wg |-> 0, i |-> 0, calls |-> [d \in Downloads |-> 0],
            events |-> [d \in Downloads |-> <<>>]]

NoPlan == [S |-> 0, C |-> 0, chunks |-> <<>>, planned |-> FALSE]

\* what a remote end can be: it honours Range requests or not, and a remote
\* end that honours them may leave Accept-Ranges out of its HEAD answer (an
\* answer without the header, or a status such as 405 to the HEAD method)
ServerCfg ==
  {s \in [size : 1 .. MaxFileSize, ranges : BOOLEAN, advert : BOOLEAN] :
     s.advert => s.ranges}
FixedServer == [size |-> 1, ranges |-> FALSE, advert |-> FALSE]

\* ---- Init: an empty store, nothing running -------------------------------------
Init ==
  /\ downloads = [d \in Downloads |-> AbsentRow]
  /\ chunks = [d \in Downloads |-> <<>>]
  /\ files = [d \in Downloads |-> NoFiles]
  /\ srv \in [Downloads -> ServerCfg]
  /\ \A d \in Downloads \ CliDownloads : srv[d] = FixedServer
  /\ active = {}
  /\ ctx = [d \in Downloads |-> LiveCtx]
  /\ att = [d \in Downloads |-> IdleAtt]
  /\ out = NoOut
  /\ pausing = [d \in Downloads |-> FALSE]
  /\ batch = NoBatch
  /\ plan = NoPlan
  /\ CalcIdle


\* ---- Manager.StartDownload (part_001:580-611) ----------------------------------
Return_keepsHandle(d, a, e) ==
  /\ att' = [att EXCEPT ![d] = [a EXCEPT !.pc = "returned", !.err = e]]
  /\ active' = active

\* the return of StartDownload: the deferred delete(m.active, id) runs with it
Return(d, a, e) ==
  /\ att' = [att EXCEPT ![d] = [a EXCEPT !.pc = "returned", !.err = e]]
  /\ active' = active \ {d}

\* context.WithCancel(ctx): a fresh child of the caller's context
ChildCtx(c) == [c EXCEPT !.err = IF c.deadline THEN ErrDeadline ELSE ""]

\* register the cancel function, then db.UpdateStatus(id, StatusDownloading, "");
\* when the UPDATE fails StartDownload returns its error
StartDownload(d) ==
  /\ att[d].pc = "start"
  /\ ctx' = [ctx EXCEPT ![d] = ChildCtx(ctx[d])]
  /\ LET a == [att[d] EXCEPT !.err = "", !.req = NoReq, !.mode = "",
                             !.chunks = <<>>, !.idx = 0,
                             !.supportsRange = FALSE]
     IN \E updated \in BOOLEAN :
          IF updated
          THEN /\ active' = active \cup {d}
               /\ downloads' =
                    IF a.id = 0 THEN downloads
                    ELSE [downloads EXCEPT
                            ![d] = UpdateStatus(downloads[d], StatusDownloading, "")]
               /\ att' = [att EXCEPT ![d] = [a EXCEPT !.pc = "probe"]]
          ELSE /\ Return(d, a, ErrStorage)
               /\ UNCHANGED downloads
  /\ UNCHANGED <<chunks, files, srv, batch, plan, calc, pausing>>
  /\ out' = NoOut

UseChunked_atLeast(supportsRange, totalSize) ==
  supportsRange /\ totalSize >= chunkSize

\* supportsRange && totalSize > m.chunkSize
UseChunked(supportsRange, totalSize) == supportsRange /\ totalSize > chunkSize

\* checkRangeSupport / checkRangeSupportWithGet (part_001:627-672), then the
\* choice of the path
Probe(d) ==
  /\ att[d].pc = "probe"
  /\ LET s == srv[d]
         chosen(sup, total) ==
           /\ att' = [att EXCEPT ![d].FileSize = total,
                                 ![d].supportsRange = sup,
                                 ![d].mode = IF UseChunked(sup, total)
                                             THEN "chunked" ELSE "simple",
                                 ![d].pc = IF UseChunked(sup, total)
                                           THEN "chunked" ELSE "simple"]
           /\ UNCHANGED active
     IN IF ctx[d].err # ""
        THEN Return(d, att[d], ctx[d].err)
        ELSE \E headOk \in BOOLEAN, getOk \in BOOLEAN :
               IF headOk THEN chosen(s.advert, s.size)
               ELSE IF getOk THEN chosen(s.ranges, s.size)
               ELSE Return(d, att[d], ErrNetwork)
  /\ UNCHANGED <<downloads, chunks, files, srv, ctx, batch, plan, calc, pausing>>
  /\ out' = NoOut

\* ---- Manager.downloadChunked (part_001:753-818) ----------------------------------
\* db.GetChunks, createChunks + db.CreateChunks when there are no rows, then the
\* temp file is opened and truncated to FileSize
ChunkedInit(d) ==
  /\ att[d].pc = "chunked"
  /\ IF att[d].id = 0
     THEN \* no rows under id 0, and the INSERT for download_id 0 breaks the
          \* foreign key: "failed to create chunks"
          /\ Return(d, att[d], ErrStorage)
          /\ UNCHANGED <<chunks, files>>
     ELSE LET rows == IF chunks[d] = <<>>
                      THEN createChunks(att[d].FileSize, chunkSize) ELSE chunks[d]
          IN /\ chunks' = [chunks EXCEPT ![d] = rows]
             /\ \E opened \in BOOLEAN :
                  IF opened
                  THEN /\ files' = [files EXCEPT ![d].temp = TRUE]
                       /\ att' = [att EXCEPT ![d].chunks = rows, ![d].idx = 1,
                                             ![d].pc = "loop"]
                       /\ UNCHANGED active
                  ELSE /\ Return(d, [att[d] EXCEPT !.chunks = rows], ErrStorage)
                       /\ UNCHANGED files
  /\ UNCHANGED <<downloads, srv, ctx, batch, plan, calc, pausing>>
  /\ out' = NoOut

\* the loop over chunks is left when every chunk has been visited
LoopDone_beforeLast(i, n) == i >= n

LoopDone(i, n) == i > n

\* a resume position that forgets the bytes already downloaded
ResumePos_fromStart(chunk) == chunk.StartByte

\* startPos := chunk.StartByte + chunk.Downloaded (part_001:846)
ResumePos(chunk) == chunk.StartByte + chunk.Downloaded

\* one iteration of "for _, chunk := range chunks" up to the call of downloadChunk
ChunkLoop(d) ==
  /\ att[d].pc = "loop"
  /\ LET a == att[d]
     IN IF LoopDone(a.idx, Len(a.chunks))
        THEN /\ att' = [att EXCEPT ![d].pc = "rename"]
             /\ UNCHANGED active
        ELSE IF a.chunks[a.idx].Status = "completed"
        THEN /\ att' = [att EXCEPT ![d].idx = a.idx + 1]
             /\ UNCHANGED active
        ELSE IF ctx[d].err # ""
        THEN Return(d, a, ctx[d].err)
        ELSE /\ att' = [att EXCEPT ![d].pc = "retry", ![d].attempt = 0,
                                   ![d].lastErr = "",
                                   ![d].startPos = ResumePos(a.chunks[a.idx])]
             /\ UNCHANGED active
  /\ UNCHANGED <<downloads, chunks, files, srv, ctx, batch, plan, calc, pausing>>
  /\ out' = NoOut

\* ---- RetryOperation around the ranged GET (part_001:852-874, 1050-1097) ----------
\* length of the body the remote end sends for "Range: bytes=first-last"
BodyLen(s, first, last) ==
  IF s.ranges THEN Min(last, s.size - 1) - first + 1 ELSE s.size

\* one pass of the retry loop: the context check, then the operation
RetryStep(d) ==
  /\ att[d].pc = "retry"
  /\ LET a == att[d]
         s == srv[d]
         c == a.chunks[a.idx]
         r == RangeReq(a.startPos, c.EndByte)
         sent == [a EXCEPT !.req = r]
         again(e) ==
           IF a.attempt < MaxAttempts - 1
           THEN /\ att' = [att EXCEPT ![d] = [sent EXCEPT !.pc = "wait",
                                                          !.lastErr = e]]
                /\ UNCHANGED active
           ELSE Return(d, [sent EXCEPT !.lastErr = e], e)
     IN IF a.attempt >= MaxAttempts
        THEN Return(d, a, a.lastErr)
        ELSE IF ctx[d].err # ""
        THEN Return(d, a, ctx[d].err)
        ELSE \/ \* the remote end answers
                IF s.ranges /\ (a.startPos > c.EndByte \/ a.startPos >= s.size)
                THEN Return(d, [sent EXCEPT !.lastErr = ErrServer], ErrServer)
                ELSE /\ att' = [att EXCEPT
                                  ![d] = [sent EXCEPT
                                            !.pc = "read",
                                            !.body = BodyLen(s, a.startPos,
                                                             c.EndByte)]]
                     /\ UNCHANGED active
             \/ Return(d, [sent EXCEPT !.lastErr = ErrServer], ErrServer)
             \/ again(ErrNetwork)
  /\ UNCHANGED <<downloads, chunks, files, srv, ctx, batch, plan, calc, pausing>>
  /\ out' = NoOut

\* the wait between two attempts: ctx.Done() or the timer
RetryWait(d) ==
  /\ att[d].pc = "wait"
  /\ \/ /\ ctx[d].err # ""
        /\ Return(d, att[d], ctx[d].err)
     \/ /\ att' = [att EXCEPT ![d].pc = "retry",
                              ![d].attempt = att[d].attempt + 1]
        /\ UNCHANGED active
  /\ UNCHANGED <<downloads, chunks, files, srv, ctx, batch, plan, calc, pausing>>
  /\ out' = NoOut


\* ---- Manager.downloadChunk: the read loop (part_001:886-922) ---------------------
\* chunk.Downloaded%(256*1024) == 0
AtCheckpoint(n) == n % CheckpointInterval = 0

\* the total handed to db.UpdateProgressAtomic:
\* download.DownloadedSize + chunk.Downloaded
CheckpointTotal(a, n) == a.DownloadedSize + n

ChunkRead(d) ==
  /\ att[d].pc = "read"
  /\ LET a == att[d]
         k == a.idx
         have == a.chunks[k].Downloaded
     IN IF ctx[d].err # ""
        THEN \* case <-ctx.Done(): db.UpdateChunkProgress, return ctx.Err()
             /\ chunks' = [chunks EXCEPT ![d] = UpdateChunkProgress(@, k, have)]
             /\ Return(d, a, ctx[d].err)
             /\ UNCHANGED downloads
        ELSE \/ \* n > 0 bytes read and written
                /\ a.body > 0
                /\ \E n \in 1 .. Min(BufSize, a.body) :
                     /\ att' = [att EXCEPT ![d].chunks[k].Downloaded = have + n,
                                           ![d].body = a.body - n]
                     /\ IF AtCheckpoint(have + n)
                        THEN \* db.UpdateProgressAtomic
                             /\ chunks' = [chunks EXCEPT
                                  ![d] = UpdateChunkProgress(@, k, have + n)]
                             /\ downloads' = [downloads EXCEPT
                                  ![d].downloaded_size =
                                     IF downloads[d].status = NoRow THEN @
                                     ELSE CheckpointTotal(a, have + n)]
                        ELSE UNCHANGED <<chunks, downloads>>
                /\ UNCHANGED active
             \/ \* io.EOF: db.MarkChunkCompleted, back to the loop over chunks
                /\ a.body = 0
                /\ chunks' = [chunks EXCEPT ![d] = MarkChunkCompleted(@, k)]
                /\ att' = [att EXCEPT ![d].idx = k + 1, ![d].pc = "loop"]
                /\ UNCHANGED <<downloads, active>>
             \/ \* a read error: db.UpdateChunkProgress, return err
                /\ a.body > 0
                /\ chunks' = [chunks EXCEPT ![d] = UpdateChunkProgress(@, k, have)]
                /\ Return(d, a, ErrNetwork)
                /\ UNCHANGED downloads
  /\ UNCHANGED <<files, srv, ctx, batch, plan, calc, pausing>>
  /\ out' = NoOut

\* "return os.Rename(download.TempPath, download.FilePath)" of either path
Rename(d) ==
  /\ att[d].pc = "rename"
  /\ \E renamed \in BOOLEAN :
       IF renamed
       THEN /\ files' = [files EXCEPT ![d] = [temp |-> FALSE, dest |-> "fresh", body |-> "none"]]
            /\ Return(d, att[d], "")
       ELSE /\ Return(d, att[d], ErrStorage)
            /\ UNCHANGED files
  /\ UNCHANGED <<downloads, chunks, srv, ctx, batch, plan, calc, pausing>>
  /\ out' = NoOut

\* ---- Manager.downloadSimple (part_001:678-750) -----------------------------------
\* a sniff that writes the header before looking at it
SniffWrites_first(html) == "part"

\* what the new temp file holds after the first 2 KiB were read: the header is
\* written only when no marker was found in it
SniffWrites(html) == IF html THEN "none" ELSE "part"

\* the GET, the status and Content-Type checks, os.Create and the sniffed header
SimpleGet(d) ==
  /\ att[d].pc = "simple"
  /\ IF ctx[d].err # ""
     THEN /\ Return(d, att[d], ctx[d].err)
          /\ UNCHANGED files
     ELSE LET sent == [att[d] EXCEPT !.req = FullReq]
          IN \/ /\ Return(d, sent, ErrNetwork) /\ UNCHANGED files
             \/ /\ Return(d, sent, ErrServer) /\ UNCHANGED files
             \/ \* Content-Type text/html: before the temp file is created
                /\ Return(d, sent, ErrHTMLContent) /\ UNCHANGED files
             \/ \* os.Create fails
                /\ Return(d, sent, ErrStorage) /\ UNCHANGED files
             \/ \* the sniffed first 2 KiB hold an HTML marker
                /\ files' = [files EXCEPT ![d].temp = TRUE,
                                          ![d].body = SniffWrites(TRUE)]
                /\ Return(d, sent, ErrHTMLContent)
             \/ /\ files' = [files EXCEPT ![d].temp = TRUE,
                                          ![d].body = SniffWrites(FALSE)]
                /\ att' = [att EXCEPT ![d] = [sent EXCEPT !.pc = "copy"]]
                /\ UNCHANGED active
  /\ UNCHANGED <<downloads, chunks, srv, ctx, batch, plan, calc, pausing>>
  /\ out' = NoOut

\* the pc after io.Copy: the rename is reached only with err == nil
AfterCopy(e) == IF e = "" THEN "rename" ELSE "returned"

\* io.Copy(writer, resp.Body)
SimpleCopy(d) ==
  /\ att[d].pc = "copy"
  /\ \E e \in (IF ctx[d].err # "" THEN {ctx[d].err} ELSE {"", ErrNetwork}) :
       IF AfterCopy(e) = "rename"
       THEN /\ att' = [att EXCEPT ![d].pc = "rename", ![d].lastErr = e]
            /\ files' = [files EXCEPT ![d].body = "all"]
            /\ UNCHANGED active
       ELSE /\ Return(d, att[d], e)
            /\ UNCHANGED files
  /\ UNCHANGED <<downloads, chunks, srv, ctx, batch, plan, calc, pausing>>
  /\ out' = NoOut


\* ---- db.ResetDownload (downloads.go:233-250) --------------------------------------
\* Two statements, each committed on its own: the UPDATE of the row, then the
\* DELETE of the chunk rows. deleted is FALSE when the DELETE fails or the
\* process dies between the two.
ResetDownload_keepsChunks(d, deleted) ==
  /\ downloads' = [downloads EXCEPT ![d] = ResetRow(downloads[d])]
  /\ chunks' = chunks

ResetDownload(d, deleted) ==
  /\ downloads' = [downloads EXCEPT ![d] = ResetRow(downloads[d])]
  /\ chunks' = [chunks EXCEPT ![d] = IF deleted THEN <<>> ELSE @]

\* a caller's context.WithTimeout(ctx, 30*time.Minute) and the loaded record
BeginAs(d, who, row, id) ==
  /\ att' = [att EXCEPT ![d] = [IdleAtt EXCEPT !.pc = "start", !.caller = who,
                                               !.id = id,
                                               !.FileSize = row.file_size,
                                               !.DownloadedSize =
                                                  row.downloaded_size]]
  /\ ctx' = [ctx EXCEPT ![d] = LiveCtx]
  /\ files' = [files EXCEPT ![d] = Keep(@)]

Begin(d, who, row) == BeginAs(d, who, row, d)

\* ---- addToQueue (search.go:256-282) ------------------------------------------------
addToQueue(d) ==
  /\ downloads[d].status = NoRow
  /\ downloads' = [downloads EXCEPT ![d] = NewRow(srv[d].size)]
  /\ out' = Say("queue", d, "added")
  /\ UNCHANGED <<chunks, files, srv, active, ctx, att, batch, plan, calc, pausing>>

\* ---- runDownloadByHash (download.go:40-218) up to the mirror loop -------------------
\* "if existing != nil && existing.Status == db.StatusPending {download.ID =
\* existing.ID} else if existing == nil {db.CreateDownload(download)}", with
\* existing.Status as it was read before db.ResetDownload
RecordID(d, st) == IF st \in {StatusPending, NoRow} THEN d ELSE 0

runDownloadByHash(d) ==
  /\ att[d].pc = "idle"
  /\ LET st == downloads[d].status
     IN IF st \in {StatusCompleted, StatusDownloading, StatusPaused}
        THEN /\ out' = Say("download", d, st)
             /\ UNCHANGED <<downloads, chunks, att, ctx, files>>
        ELSE /\ IF st = StatusFailed THEN ResetDownload(d, TRUE)
                ELSE IF st = NoRow
                THEN /\ downloads' = [downloads EXCEPT ![d] = NewRow(0)]
                     /\ UNCHANGED chunks
                ELSE UNCHANGED <<downloads, chunks>>
             \* download := &db.Download{...}: FileSize and DownloadedSize are 0;
             \* download.ID is set from a row found pending or from
             \* db.CreateDownload, and stays 0 after the reset of a failed row
             /\ BeginAs(d, "download", NewRow(0), RecordID(d, st))
             /\ out' = Say("download", d, "Downloading")
  /\ UNCHANGED <<srv, active, batch, plan, calc, pausing>>

\* ---- resumeOne (root.go:135-169) up to the call of StartDownload --------------------
\* the statuses for which resumeOne returns without starting
ResumeRefused(st) == st \in {StatusCompleted, StatusDownloading}

resumeOne(d) ==
  /\ att[d].pc = "idle"
  /\ downloads[d].status # NoRow
  /\ IF ResumeRefused(downloads[d].status)
     THEN /\ out' = Say("resume", d, downloads[d].status)
          /\ UNCHANGED <<att, ctx, files>>
     ELSE /\ Begin(d, "resume", downloads[d])
          /\ out' = Say("resume", d, "Resuming")
  /\ UNCHANGED <<downloads, chunks, srv, active, batch, plan, calc, pausing>>

\* ---- runRestart (restart.go:27-68) up to the call of StartDownload ------------------
runRestart(d) ==
  /\ att[d].pc = "idle"
  /\ downloads[d].status # NoRow
  /\ ResetDownload(d, TRUE)
  /\ Begin(d, "restart", ResetRow(downloads[d]))
  /\ out' = Say("restart", d, "Restarting")
  /\ UNCHANGED <<srv, active, batch, plan, calc, pausing>>

\* runRestart whose db.ResetDownload does not get to its DELETE: "failed to
\* reset download", or the process is gone
runRestartCut(d) ==
  /\ att[d].pc = "idle"
  /\ downloads[d].status # NoRow
  /\ ResetDownload(d, FALSE)
  /\ out' = Say("restart", d, "failed to reset download")
  /\ UNCHANGED <<att, ctx, files, srv, active, batch, plan, calc, pausing>>

\* ---- what a caller does with the result of StartDownload ------------------------------
\* resumeOne / runRestart: any error marks the Download failed
CallerStatus(row, e) ==
  IF e # "" THEN UpdateStatus(row, StatusFailed, e) ELSE MarkCompleted(row)

Finish(d) ==
  /\ att[d].pc = "returned"
  /\ att[d].caller \in {"resume", "restart", "download"}
  /\ LET a == att[d]
     IN IF a.caller = "download" /\ a.err # "" /\ a.url < NumUrls
        THEN \* the mirror loop goes on with the next URL
             /\ att' = [att EXCEPT ![d].pc = "start", ![d].url = a.url + 1]
             /\ out' = NoOut
             /\ UNCHANGED downloads
        ELSE /\ downloads' = IF a.id = 0 THEN downloads
                              ELSE [downloads EXCEPT
                                      ![d] = CallerStatus(downloads[d], a.err)]
             /\ att' = [att EXCEPT ![d] = IdleAtt]
             /\ out' = Say(a.caller, d, IF a.err = "" THEN "Downloaded"
                                        ELSE "download failed")
  /\ UNCHANGED <<chunks, files, srv, active, ctx, batch, plan, calc, pausing>>

\* ---- Manager.PauseDownload (part_001:614-624) on a Manager with registry reg -----------
PauseDownload_cancelsAll(d, reg) ==
  /\ ctx' = [e \in Downloads |->
               IF e \in reg /\ ctx[e].err = ""
               THEN [ctx[e] EXCEPT !.err = ErrCanceled] ELSE ctx[e]]
  /\ downloads' = [downloads EXCEPT
                     ![d] = UpdateStatus(downloads[d], StatusPaused, "")]

PauseDownload(d, reg) ==
  /\ ctx' = [ctx EXCEPT ![d].err = IF d \in reg /\ @ = "" THEN ErrCanceled
                                    ELSE @]
  /\ downloads' = [downloads EXCEPT
                     ![d] = UpdateStatus(downloads[d], StatusPaused, "")]

\* pauseOne (part_006:42-66): the command builds its own Manager, whose registry
\* is empty
pauseOne(d) ==
  /\ downloads[d].status # NoRow
  /\ IF downloads[d].status \in {StatusCompleted, StatusPaused}
     THEN /\ out' = Say("pause", d, downloads[d].status)
          /\ UNCHANGED <<downloads, ctx>>
     ELSE /\ PauseDownload(d, {})
          /\ out' = Say("pause", d, "Paused")
  /\ UNCHANGED <<chunks, files, srv, active, att, batch, plan, calc, pausing>>

\* pauseOne as two steps, for the steps of other processes that fall between
\* its db.GetDownload (part_006:43-56) and its call of PauseDownload
\* (part_006:58-61)
pauseOneCheck(d) ==
  /\ ~pausing[d]
  /\ downloads[d].status # NoRow
  /\ IF downloads[d].status \in {StatusCompleted, StatusPaused}
     THEN /\ out' = Say("pause", d, downloads[d].status)
          /\ UNCHANGED pausing
     ELSE /\ pausing' = [pausing EXCEPT ![d] = TRUE]
          /\ out' = NoOut
  /\ UNCHANGED <<downloads, chunks, files, srv, active, ctx, att, batch, plan,
                 calc>>

pauseOneCall(d) ==
  /\ pausing[d]
  /\ pausing' = [pausing EXCEPT ![d] = FALSE]
  /\ PauseDownload(d, {})
  /\ out' = Say("pause", d, "Paused")
  /\ UNCHANGED <<chunks, files, srv, active, att, batch, plan, calc>>

\* PauseDownload called on the Manager that runs the attempt
ManagerPause(d) ==
  /\ d \in active
  /\ att[d].id = d
  /\ PauseDownload(d, active)
  /\ UNCHANGED <<chunks, files, srv, active, att, batch, plan, calc, pausing>>
  /\ out' = NoOut

\* the 30 minute timeout of the caller's context fires
Timeout(d) ==
  /\ att[d].pc # "idle"
  /\ att[d].caller \in {"resume", "restart", "download"}
  /\ ~ctx[d].deadline
  /\ ctx' = [ctx EXCEPT ![d] = [deadline |-> TRUE,
                                err |-> IF @.err = "" /\ d \in active
                                        THEN ErrDeadline ELSE @.err]]
  /\ UNCHANGED <<downloads, chunks, files, srv, active, att, batch, plan, calc, pausing>>
  /\ out' = NoOut

\* the process running the attempt dies: its memory is lost, the store and the
\* files stay as they are
Crash(d) ==
  /\ att[d].pc # "idle"
  /\ att[d].caller \in {"resume", "restart", "download"}
  /\ att' = [att EXCEPT ![d] = IdleAtt]
  /\ ctx' = [ctx EXCEPT ![d] = LiveCtx]
  /\ active' = active \ {d}
  /\ UNCHANGED <<downloads, chunks, files, srv, batch, plan, calc, pausing>>
  /\ out' = NoOut

\* ---- VerifyChecksum (part_002:14-43) ---------------------------------------------------
\* A hash is its text, a sequence of characters. The digest of the file is
\* printed with %x, in lower case; the expected hash is the MD5Hash of the
\* record as it was stored.
LowerChar(c) ==
  CASE c = "A" -> "a"
    [] c = "F" -> "f"
    [] OTHER -> c

\* strings.TrimSpace
TrimSpace(s) ==
  LET inked == {i \in DOMAIN s : s[i] # " "}
  IN IF inked = {} THEN <<>>
     ELSE SubSeq(s, CHOOSE i \in inked : \A j \in inked : i <= j,
                    CHOOSE i \in inked : \A j \in inked : j <= i)

\* the MD5Hash column of the row of Download d
MD5Hash(d) ==
  CASE d = 1 -> <<" ", "A", "1", "f", " ">>
    [] d = 2 -> <<"a", "1", "F">>
    [] OTHER -> <<"a", "1", "f">>

\* what md5 of the file at FilePath can print
Checksums == {<<"a", "1", "f">>, <<"f", "1", "a">>}

ExpectedHash_asStored(hash) == hash

ExpectedHash(hash) == [i \in DOMAIN TrimSpace(hash) |-> LowerChar(TrimSpace(hash)[i])]

\* TRUE when VerifyChecksum returns nil
VerifyChecksum(d, checksum) == checksum = ExpectedHash(MD5Hash(d))

\* what verify prints for one Download, with the digest it computed
SayVerify(d, m, checksum) ==
  [cmd |-> "verify", id |-> d, msg |-> m, got |-> checksum]

\* ---- runVerify (verify.go:30-140) with --fix; VerifyAndMark (part_002:45-61) ----------
runVerify(d) ==
  /\ att[d].pc = "idle"
  /\ downloads[d].status = StatusCompleted
  /\ files[d].dest # "none"
  /\ \E checksum \in Checksums, autoFix \in BOOLEAN :
       IF VerifyChecksum(d, checksum)
       THEN /\ downloads' = [downloads EXCEPT
                               ![d] = MarkVerified(downloads[d], TRUE)]
            /\ out' = SayVerify(d, "verified", checksum)
            /\ UNCHANGED <<chunks, att, ctx, files>>
       ELSE IF ~autoFix
       THEN /\ downloads' = [downloads EXCEPT
                               ![d] = MarkVerified(downloads[d], FALSE)]
            /\ out' = SayVerify(d, "mismatch", checksum)
            /\ UNCHANGED <<chunks, att, ctx, files>>
       ELSE \* db.ResetDownload, then runDownloadByHash finds the row pending
            /\ downloads' = [downloads EXCEPT
                               ![d] = ResetRow(MarkVerified(downloads[d], FALSE))]
            /\ chunks' = [chunks EXCEPT ![d] = <<>>]
            /\ Begin(d, "download", NewRow(0))
            /\ out' = SayVerify(d, "Re-downloading", checksum)
  /\ UNCHANGED <<srv, active, batch, plan, calc, pausing>>

\* ---- one step of the attempt of Download d --------------------------------------------
AttemptStep(d) ==
  \/ StartDownload(d)
  \/ Probe(d)
  \/ ChunkedInit(d)
  \/ ChunkLoop(d)
  \/ RetryStep(d)
  \/ RetryWait(d)
  \/ ChunkRead(d)
  \/ Rename(d)
  \/ SimpleGet(d)
  \/ SimpleCopy(d)

Command(d) ==
  \/ addToQueue(d)
  \/ runDownloadByHash(d)
  \/ resumeOne(d)
  \/ runRestart(d)
  \/ runVerify(d)
  \/ pauseOne(d)
  \/ ManagerPause(d)
  \/ Finish(d)

Next ==
  \E d \in CliDownloads :
    \/ Command(d)
    \/ AttemptStep(d)
    \/ Timeout(d)
    \/ Crash(d)

Spec == Init /\ [][Next]_vars


\* ---- one call of StartDownload for a pending Download, against every kind of
\* remote end, those that do not tell the length of the resource included, and
\* those whose HEAD answer carries Accept-Ranges: bytes while a GET with a
\* Range header is answered 200 with the whole resource ------------------------
\* resp.ContentLength of an answer without a Content-Length header
UnknownLength == -1

AttemptServers ==
  [size : (1 .. MaxFileSize) \cup {UnknownLength}, ranges : BOOLEAN,
   advert : BOOLEAN]

InitAttempt ==
  /\ srv \in [Downloads -> AttemptServers \cup {FixedServer}]
  /\ \A d \in Downloads :
       IF d \in CliDownloads THEN srv[d] \in AttemptServers
       ELSE srv[d] = FixedServer
  /\ downloads = [d \in Downloads |->
                    IF d \in CliDownloads THEN NewRow(0) ELSE AbsentRow]
  /\ chunks = [d \in Downloads |-> <<>>]
  /\ files = [d \in Downloads |-> NoFiles]
  /\ active = {}
  /\ ctx = [d \in Downloads |-> LiveCtx]
  /\ att = [d \in Downloads |->
              IF d \in CliDownloads
              THEN [IdleAtt EXCEPT !.pc = "start", !.caller = "resume", !.id = d]
              ELSE IdleAtt]
  /\ out = NoOut
  /\ pausing = [d \in Downloads |-> FALSE]
  /\ batch = NoBatch
  /\ plan = NoPlan
  /\ CalcIdle

NextAttempt == \E d \in CliDownloads : AttemptStep(d)

AttemptSpec == InitAttempt /\ [][NextAttempt]_vars

\* ---- one call of StartDownload by resumeOne, with a pause command run from
\* another terminal while the transfer goes on -------------------------------
NextPause ==
  \E d \in CliDownloads :
    \/ AttemptStep(d)
    \/ Finish(d)
    \/ pauseOneCheck(d)
    \/ pauseOneCall(d)

PauseSpec == InitAttempt /\ [][NextPause]_vars

\* ---- one call of StartDownload by resumeOne, then a restart whose reset is
\* cut short after its first statement -----------------------------------------
NextReset ==
  \E d \in CliDownloads :
    \/ AttemptStep(d)
    \/ Finish(d)
    \/ runRestartCut(d)

ResetSpec == InitAttempt /\ [][NextReset]_vars

\* ---- resumes of one Download whose URL serves another resource by the time
\* of the next attempt (a mirror, a new edition of the file) --------------------
RemoteChanges(d) ==
  /\ att[d].pc = "idle"
  /\ chunks[d] # <<>>
  /\ \E s \in ServerCfg \ {srv[d]} : srv' = [srv EXCEPT ![d] = s]
  /\ out' = NoOut
  /\ UNCHANGED <<downloads, chunks, files, active, ctx, att, batch, plan, calc,
                 pausing>>

NextSize ==
  \E d \in CliDownloads :
    \/ AttemptStep(d)
    \/ Finish(d)
    \/ resumeOne(d)
    \/ RemoteChanges(d)

\* the remote ends here are those that answer a ranged GET as their HEAD
\* answer announces
InitSize ==
  /\ InitAttempt
  /\ \A d \in CliDownloads : srv[d].advert => srv[d].ranges

SizeSpec == InitSize /\ [][NextSize]_vars

\* ---- resumeAll (root.go:171-251) and Manager.StartConcurrent (part_001:534-577) -------
\* the ids with the given status, as db.ListDownloads returns them
RECURSIVE ListFrom(_, _)
ListFrom(st, d) ==
  IF d > NumDownloads THEN <<>>
  ELSE (IF downloads[d].status = st THEN <<d>> ELSE <<>>) \o ListFrom(st, d + 1)

ListDownloads(st) == ListFrom(st, 1)

\* the zero value of a DownloadResult
NoResult == [Download |-> 0, Error |-> ""]

\* resumeAll up to StartConcurrent having started one goroutine per Download
resumeAll ==
  /\ batch.pc = "none"
  /\ \A d \in Downloads : att[d].pc = "idle"
  /\ LET list == ListDownloads(StatusPaused) \o ListDownloads(StatusFailed)
                   \o ListDownloads(StatusPending)
         ids == {list[i] : i \in DOMAIN list}
     IN IF list = <<>>
        THEN /\ out' = Say("resume", 0, "No downloads to resume.")
             /\ UNCHANGED <<att, ctx, batch, files>>
        ELSE /\ batch' = [NoBatch EXCEPT !.pc = "running", !.list = list,
                                         !.wg = Len(list),
                                         !.results = [i \in DOMAIN list |->
                                                        NoResult]]
             /\ att' = [d \in Downloads |->
                          IF d \in ids
                          THEN [IdleAtt EXCEPT
                                  !.pc = "queued", !.caller = "batch", !.id = d,
                                  !.FileSize = downloads[d].file_size,
                                  !.DownloadedSize = downloads[d].downloaded_size]
                          ELSE att[d]]
             /\ ctx' = [d \in Downloads |-> IF d \in ids THEN LiveCtx ELSE ctx[d]]
             /\ files' = [d \in Downloads |->
                            IF d \in ids THEN Keep(files[d]) ELSE files[d]]
             /\ out' = Say("resume", 0, "Resuming")
  /\ UNCHANGED <<downloads, chunks, srv, active, plan, calc, pausing>>

CanAcquire_oneMore(held) == held <= maxConcurrent

\* "sem <- struct{}{}" goes through while the channel is not full
CanAcquire(held) == held < maxConcurrent

\* the goroutine takes a slot and reports "starting"
Acquire(d) ==
  /\ att[d].pc = "queued"
  /\ CanAcquire(batch.sem)
  /\ batch' = [batch EXCEPT !.sem = @ + 1, !.calls[d] = @ + 1,
                            !.events[d] = Append(@, "starting")]
  /\ att' = [att EXCEPT ![d].pc = "start"]
  /\ out' = Say("progress", d, "starting")
  /\ UNCHANGED <<downloads, chunks, files, srv, active, ctx, plan, calc, pausing>>

\* the index of Download d in the submitted list
IndexOf(list, d) == CHOOSE i \in DOMAIN list : list[i] = d

\* results[idx] = DownloadResult{Download: dl, Error: err}
StoreResult(results, idx, d, e) ==
  [results EXCEPT ![idx] = [Download |-> d, Error |-> e]]

TerminalEvent_completed(err) == "completed"

\* "Notify completion": the status the callback is told
TerminalEvent(err) == IF err # "" THEN "failed" ELSE "completed"

\* StartDownload has returned: the result is stored, the callback told, the
\* slot released and wg.Done() called
WorkerDone(d) ==
  /\ att[d].pc = "returned"
  /\ att[d].caller = "batch"
  /\ batch' = [batch EXCEPT
                 !.results = StoreResult(@, IndexOf(batch.list, d), d, att[d].err),
                 !.events[d] = Append(@, TerminalEvent(att[d].err)),
                 !.sem = @ - 1,
                 !.wg = @ - 1]
  /\ att' = [att EXCEPT ![d].pc = "done"]
  /\ out' = Say("progress", d, TerminalEvent(att[d].err))
  /\ UNCHANGED <<downloads, chunks, files, srv, active, ctx, plan, calc, pausing>>

\* a wait that is over while one goroutine is still running
WaitOver_early(wg) == wg <= 1

\* wg.Wait() returns when the counter is zero
WaitOver(wg) == wg = 0

StartConcurrentReturn ==
  /\ batch.pc = "running"
  /\ WaitOver(batch.wg)
  /\ batch' = [batch EXCEPT !.pc = "results", !.i = 1]
  /\ out' = NoOut
  /\ UNCHANGED <<downloads, chunks, files, srv, active, ctx, att, plan, calc, pausing>>

\* one pass of "for _, result := range results", then the summary
ProcessResult ==
  /\ batch.pc = "results"
  /\ IF batch.i > Len(batch.results)
     THEN /\ batch' = [batch EXCEPT !.pc = "done"]
          /\ att' = [d \in Downloads |->
                       IF att[d].caller = "batch" THEN IdleAtt ELSE att[d]]
          /\ out' = Say("resume", 0, "Summary")
          /\ UNCHANGED downloads
     ELSE LET r == batch.results[batch.i]
          IN /\ downloads' =
                  IF r.Download \in Downloads
                  THEN [downloads EXCEPT
                          ![r.Download] = CallerStatus(@, r.Error)]
                  ELSE downloads
             /\ batch' = [batch EXCEPT !.i = @ + 1]
             /\ out' = NoOut
             /\ UNCHANGED att
  /\ UNCHANGED <<chunks, files, srv, active, ctx, plan, calc, pausing>>

\* a store in which every Download is waiting to be resumed
BatchServers(d) ==
  IF d = 1
  THEN {FixedServer, [size |-> chunkSize + 1, ranges |-> TRUE, advert |-> TRUE]}
  ELSE {FixedServer}

\* pending, paused and failed Downloads, so that the list of resumeAll is not
\* in the order of the ids
BatchStatus(d) ==
  CASE d % 3 = 1 -> StatusPending
    [] d % 3 = 2 -> StatusPaused
    [] OTHER -> StatusFailed

InitBatch ==
  /\ srv \in [Downloads -> ServerCfg]
  /\ \A d \in Downloads : srv[d] \in BatchServers(d)
  /\ downloads = [d \in Downloads |->
                    [NewRow(srv[d].size) EXCEPT !.status = BatchStatus(d)]]
  /\ chunks = [d \in Downloads |-> <<>>]
  /\ files = [d \in Downloads |-> NoFiles]
  /\ active = {}
  /\ ctx = [d \in Downloads |-> LiveCtx]
  /\ att = [d \in Downloads |-> IdleAtt]
  /\ out = NoOut
  /\ pausing = [d \in Downloads |-> FALSE]
  /\ batch = NoBatch
  /\ plan = NoPlan
  /\ CalcIdle

NextBatch ==
  \/ resumeAll
  \/ StartConcurrentReturn
  \/ ProcessResult
  \/ \E d \in Downloads :
       \/ Acquire(d)
       \/ AttemptStep(d)
       \/ WorkerDone(d)

BatchSpec == InitBatch /\ [][NextBatch]_vars

\* ---- StartConcurrent for two Downloads, with PauseDownload called on the
\* Manager that runs them ---------------------------------------------------
Siblings == {1, 2}

InitBatchPause ==
  /\ srv \in [Downloads -> ServerCfg]
  /\ \A d \in Downloads : srv[d] \in BatchServers(d)
  /\ downloads = [d \in Downloads |->
                    IF d \in Siblings
                    THEN [NewRow(srv[d].size) EXCEPT !.status = BatchStatus(d)]
                    ELSE AbsentRow]
  /\ chunks = [d \in Downloads |-> <<>>]
  /\ files = [d \in Downloads |-> NoFiles]
  /\ active = {}
  /\ ctx = [d \in Downloads |-> LiveCtx]
  /\ att = [d \in Downloads |-> IdleAtt]
  /\ out = NoOut
  /\ pausing = [d \in Downloads |-> FALSE]
  /\ batch = NoBatch
  /\ plan = NoPlan
  /\ CalcIdle

NextBatchPause ==
  \/ NextBatch
  \/ \E d \in Downloads : ManagerPause(d)

BatchPauseSpec == InitBatchPause /\ [][NextBatchPause]_vars

\* ---- the chunk planner on its own: createChunks for any size and chunk size ------------
InitPlan ==
  /\ downloads = [d \in Downloads |-> AbsentRow]
  /\ chunks = [d \in Downloads |-> <<>>]
  /\ files = [d \in Downloads |-> NoFiles]
  /\ srv = [d \in Downloads |-> FixedServer]
  /\ active = {}
  /\ ctx = [d \in Downloads |-> LiveCtx]
  /\ att = [d \in Downloads |-> IdleAtt]
  /\ out = NoOut
  /\ pausing = [d \in Downloads |-> FALSE]
  /\ batch = NoBatch
  /\ plan \in [S : 1 .. MaxPlanSize, C : 1 .. MaxPlanChunk, chunks : {<<>>},
               planned : {FALSE}]
  /\ CalcIdle

PlanChunks ==
  /\ ~plan.planned
  /\ plan' = [plan EXCEPT !.chunks = createChunks(plan.S, plan.C),
                          !.planned = TRUE]
  /\ UNCHANGED <<downloads, chunks, files, srv, active, ctx, att, out, batch, calc, pausing>>

NextPlan == PlanChunks

PlanSpec == InitPlan /\ [][NextPlan]_vars

\* ---- CategorizeError (part_001:970-1023) ---------------------------------------------
\* An error is its message, as a sequence of words, and whether it is a
\* net.Error whose Timeout() is true.
ErrorRetryable == "Retryable"
ErrorNonRetryable == "NonRetryable"
ErrorRateLimited == "RateLimited"

\* strings.ToLower on one word
Lower(w) ==
  CASE w = "Connection" -> "connection"
    [] w = "Reset" -> "reset"
    [] w = "Timeout" -> "timeout"
    [] w = "EOF" -> "eof"
    [] OTHER -> w

ToLower(text) == [i \in DOMAIN text |-> Lower(text[i])]

\* strings.Contains
Contains(text, pattern) ==
  \E i \in 0 .. Len(text) - Len(pattern) :
    \A j \in 1 .. Len(pattern) : text[i + j] = pattern[j]

retryablePatterns ==
  << <<"connection", "reset">>, <<"connection", "refused">>,
     <<"no", "such", "host">>, <<"temporary", "failure">>, <<"timeout">>,
     <<"EOF">>, <<"broken", "pipe">> >>

\* a default that retries what it does not know
DefaultCategory_retry == ErrorRetryable

\* "Default to non-retryable for unknown errors"
DefaultCategory == ErrorNonRetryable

CategorizeError(err, statusCode) ==
  IF statusCode = 429 THEN ErrorRateLimited
  ELSE IF statusCode \in {400, 401, 403, 404, 405, 410, 413} THEN ErrorNonRetryable
  ELSE IF statusCode \in {500, 502, 503, 504} THEN ErrorRetryable
  ELSE IF err = NilErr THEN ErrorRetryable
  ELSE IF err.timeout THEN ErrorRetryable
  ELSE IF \E p \in DOMAIN retryablePatterns :
            Contains(ToLower(err.text), retryablePatterns[p])
       THEN ErrorRetryable
  ELSE DefaultCategory

\* errors as the Go runtime words them
ErrNetTimeout == [text |-> <<"dial", "tcp:", "i/o", "timeout">>, timeout |-> TRUE]
ErrConnReset ==
  [text |-> <<"read:", "connection", "reset", "by", "peer">>, timeout |-> FALSE]
ErrConnResetCaps == [text |-> <<"Connection", "Reset">>, timeout |-> FALSE]
ErrConnRefused ==
  [text |-> <<"connect:", "connection", "refused">>, timeout |-> FALSE]
ErrNoSuchHost == [text |-> <<"lookup:", "no", "such", "host">>, timeout |-> FALSE]
ErrGenericTimeout == [text |-> <<"request", "Timeout">>, timeout |-> FALSE]
ErrUnexpectedEOF == [text |-> <<"unexpected", "EOF">>, timeout |-> FALSE]
ErrBrokenPipe == [text |-> <<"write:", "broken", "pipe">>, timeout |-> FALSE]
ErrCertificate ==
  [text |-> <<"x509:", "certificate", "signed", "by", "unknown", "authority">>,
   timeout |-> FALSE]
ErrStatus == [text |-> <<"server", "returned", "status">>, timeout |-> FALSE]
CtxCanceled == [text |-> <<"context", "canceled">>, timeout |-> FALSE]

\* the conditions the retry policy names as network failures
NetworkErrs ==
  {ErrNetTimeout, ErrConnReset, ErrConnRefused, ErrNoSuchHost, ErrGenericTimeout,
   ErrUnexpectedEOF, ErrBrokenPipe}

\* errors that are none of them
UnknownErrs == {ErrCertificate, ErrStatus, CtxCanceled}

ErrSamples == {NilErr, ErrConnResetCaps} \cup NetworkErrs \cup UnknownErrs

RateLimitedStatus == {429}
NonRetryableStatus == {400, 401, 403, 404, 405, 410, 413}
RetryableStatus == {500, 502, 503, 504}
ListedStatus == RateLimitedStatus \cup NonRetryableStatus \cup RetryableStatus
StatusCodes == {0, 200, 206, 302, 416, 418, 501} \cup ListedStatus

\* everything but the retry helpers, with nothing going on
EngineIdle ==
  /\ downloads = [d \in Downloads |-> AbsentRow]
  /\ chunks = [d \in Downloads |-> <<>>]
  /\ files = [d \in Downloads |-> NoFiles]
  /\ srv = [d \in Downloads |-> FixedServer]
  /\ active = {}
  /\ ctx = [d \in Downloads |-> LiveCtx]
  /\ att = [d \in Downloads |-> IdleAtt]
  /\ out = NoOut
  /\ pausing = [d \in Downloads |-> FALSE]
  /\ batch = NoBatch
  /\ plan = NoPlan

engine == <<downloads, chunks, files, srv, active, ctx, att, out, batch, plan,
            pausing>>

InitCategorize ==
  /\ EngineIdle
  /\ backoff = NoBackoff
  /\ retry = NoRetry
  /\ categorized \in [err : ErrSamples, statusCode : StatusCodes,
                      done : {FALSE}, category : {""}]

Categorize ==
  /\ ~categorized.done
  /\ categorized' = [categorized EXCEPT
                       !.category = CategorizeError(categorized.err,
                                                    categorized.statusCode),
                       !.done = TRUE]
  /\ UNCHANGED <<engine, backoff, retry>>

NextCategorize == Categorize

CategorizeSpec == InitCategorize /\ [][NextCategorize]_vars

\* ---- CalculateBackoff (part_001:1026-1047) ---------------------------------------------
RECURSIVE Grow(_, _, _)
\* "for i := 0; i < attempt; i++ { delay *= cfg.Multiplier }"
Grow(delay, Multiplier, attempt) ==
  IF attempt <= 0 THEN delay ELSE Grow(delay * Multiplier, Multiplier, attempt - 1)

\* "if delay > float64(cfg.MaxDelay) { delay = float64(cfg.MaxDelay) }"
Cap(delay, MaxDelay) == IF delay > MaxDelay THEN MaxDelay ELSE delay

\* time.Duration(delay + delay*0.25*(rand.Float64()*2-1)): the whole numbers
\* that the truncation of a value in [0.75*delay, 1.25*delay) can give
Jitter(delay) == ((3 * delay) \div 4) .. ((5 * delay - 1) \div 4)

\* the durations CalculateBackoff(attempt, cfg) can return
CalculateBackoff(attempt, cfg) ==
  IF attempt <= 0 THEN {cfg.BaseDelay}
  ELSE Jitter(Cap(Grow(cfg.BaseDelay, cfg.Multiplier, attempt), cfg.MaxDelay))

InitBackoff ==
  /\ EngineIdle
  /\ categorized = NoCategorized
  /\ retry = NoRetry
  /\ backoff \in [attempt : 0 .. MaxBackoffAttempt, BaseDelay : 1 .. MaxBaseDelay,
                  MaxDelay : 1 .. MaxMaxDelay, Multiplier : 1 .. MaxMultiplier,
                  done : {FALSE}, delay : {0}]

Backoff ==
  /\ ~backoff.done
  /\ \E r \in CalculateBackoff(backoff.attempt, backoff) :
       backoff' = [backoff EXCEPT !.delay = r, !.done = TRUE]
  /\ UNCHANGED <<engine, categorized, retry>>

NextBackoff == Backoff

BackoffSpec == InitBackoff /\ [][NextBackoff]_vars

\* ---- RetryOperation (part_001:1050-1097) ------------------------------------------------
\* the delays of the retry configuration, in time units
RetryDelays == [BaseDelay |-> 1, MaxDelay |-> 4, Multiplier |-> 2]

\* what one call of the operation can return: (statusCode, err)
OpOutcomes ==
  { [err |-> NilErr, statusCode |-> 206],
    [err |-> ErrConnReset, statusCode |-> 0],
    [err |-> ErrStatus, statusCode |-> 503],
    [err |-> ErrStatus, statusCode |-> 429],
    [err |-> ErrStatus, statusCode |-> 404],
    [err |-> ErrCertificate, statusCode |-> 0] }

InitRetry ==
  /\ EngineIdle
  /\ categorized = NoCategorized
  /\ backoff = NoBackoff
  /\ \E m \in -1 .. MaxRetryAttempts :
       retry = [NoRetry EXCEPT !.pc = "loop", !.MaxAttempts = m]

\* a loop that makes one attempt too many
LoopGoesOn_once_more(attempt, max) == attempt <= max

\* "attempt < cfg.MaxAttempts"
LoopGoesOn(attempt, max) == attempt < max

\* "if attempt < cfg.MaxAttempts-1": a wait follows every attempt but the last
WaitFollows(attempt, max) == attempt < max - 1

Returns(r, e) == [r EXCEPT !.pc = "done", !.result = e]

\* a rate-limit wait that backs off like the other waits
RateLimitDelay_base(attempt, cfg) == cfg.BaseDelay * (attempt + 1)

\* "case <-time.After(cfg.MaxDelay)" of case ErrorRateLimited
RateLimitDelay(attempt, cfg) == cfg.MaxDelay

\* one pass of the loop up to the wait: the loop condition, the look at
\* ctx.Done(), the call of the operation and the switch on the category
RetryAttempt ==
  /\ retry.pc = "loop"
  /\ IF ~LoopGoesOn(retry.attempt, retry.MaxAttempts)
     THEN retry' = Returns(retry, retry.lastErr)
     ELSE IF retry.cancelled
     THEN retry' = Returns(retry, CtxCanceled)
     ELSE \E o \in OpOutcomes :
            LET r == [retry EXCEPT !.calls = Append(@, o), !.lastErr = o.err,
                                   !.statusCode = o.statusCode]
                category == CategorizeError(o.err, o.statusCode)
                next == [r EXCEPT !.attempt = @ + 1]
            IN IF o.err = NilErr THEN retry' = Returns(r, NilErr)
               ELSE IF category = ErrorNonRetryable THEN retry' = Returns(r, o.err)
               ELSE IF ~WaitFollows(retry.attempt, retry.MaxAttempts)
               THEN retry' = next
               ELSE IF category = ErrorRateLimited
               THEN retry' = [r EXCEPT !.pc = "wait",
                                       !.delay = RateLimitDelay(retry.attempt,
                                                                RetryDelays)]
               ELSE \E b \in CalculateBackoff(retry.attempt, RetryDelays) :
                      retry' = [r EXCEPT !.pc = "wait", !.delay = b]
  /\ UNCHANGED <<engine, categorized, backoff>>

\* a sleep that nothing interrupts
TimerFires_anyway(cancelled) == TRUE

\* "case <-time.After(...)" is taken when the time is up and the context is
\* not done
TimerFires(cancelled) == ~cancelled

RetryWaitOver ==
  /\ retry.pc = "wait"
  /\ TimerFires(retry.cancelled)
  /\ retry' = [retry EXCEPT !.pc = "loop", !.attempt = @ + 1,
                            !.waits = Append(@, retry.delay)]
  /\ UNCHANGED <<engine, categorized, backoff>>

\* "case <-ctx.Done(): return ctx.Err()" of a wait
RetryWaitCancelled ==
  /\ retry.pc = "wait"
  /\ retry.cancelled
  /\ retry' = Returns(retry, CtxCanceled)
  /\ UNCHANGED <<engine, categorized, backoff>>

\* the caller's context is cancelled
RetryCancel ==
  /\ retry.pc \in {"loop", "wait"}
  /\ ~retry.cancelled
  /\ retry' = [retry EXCEPT !.cancelled = TRUE]
  /\ UNCHANGED <<engine, categorized, backoff>>

NextRetry ==
  \/ RetryAttempt
  \/ RetryWaitOver
  \/ RetryWaitCancelled
  \/ RetryCancel

RetrySpec == InitRetry /\ [][NextRetry]_vars

\* ---- helpers of the properties ---------------------------------------------------------
ChunkLen(c) == c.EndByte - c.StartByte + 1

\* index of the first chunk row that is not completed (0 if there is none)
FirstIncomplete(rows) ==
  IF \E k \in DOMAIN rows : rows[k].Status # "completed"
  THEN CHOOSE k \in DOMAIN rows :
         /\ rows[k].Status # "completed"
         /\ \A j \in DOMAIN rows : j < k => rows[j].Status = "completed"
  ELSE 0

\* the rows of a Download that is to be resumed: chunk k completed, chunk k+1 not
ResumeCase(rows) == FirstIncomplete(rows) >= 2

\* the step issues an HTTP request for the body of Download d
Requests(d) ==
  /\ att'[d].req # NoReq
  /\ \/ att'[d].req # att[d].req
     \/ att[d].pc = "retry" /\ att'[d].pc \in {"read", "wait"}

C2_ChunkPlanPartition ==
  (plan.planned /\ plan.S > plan.C /\ plan.C > 0) =>
    LET cs == plan.chunks
        n == Len(cs)
    IN /\ n >= 1
       /\ (n - 1) * plan.C < plan.S
       /\ plan.S <= n * plan.C
       /\ \A k \in 1 .. n :
            /\ cs[k].ChunkIndex = k - 1
            /\ cs[k].StartByte = (k - 1) * plan.C
            /\ cs[k].EndByte = Min(k * plan.C, plan.S) - 1
            /\ cs[k].StartByte <= cs[k].EndByte
       /\ cs[1].StartByte = 0
       /\ cs[n].EndByte = plan.S - 1
       /\ \A k \in 1 .. n - 1 : cs[k + 1].StartByte = cs[k].EndByte + 1

\* the plan of the example, scaled: C = 5 and S = 12 give [0,4], [5,9], [10,11]
C2_Witness ==
  /\ plan.planned
  /\ plan.S = 12
  /\ plan.C = 5
  /\ Len(plan.chunks) = 3
  /\ plan.chunks[3].StartByte = 10
  /\ plan.chunks[3].EndByte = 11

\* C3 (as claimed): when the process died while a Download was being fetched, so
\* that its persisted status is still Downloading and no attempt runs, a resume
\* request for it calls Start on the persisted rows
C3_Original ==
  [][\A d \in CliDownloads :
       (/\ att[d].pc = "idle"
        /\ downloads[d].status = StatusDownloading
        /\ out'.cmd = "resume"
        /\ out'.id = d)
         => att'[d].pc = "start"]_vars

\* the persisted status changes of the state machine
AllowedChanges ==
  { <<StatusPending, StatusDownloading>>,
    <<StatusDownloading, StatusCompleted>>,
    <<StatusDownloading, StatusPaused>>,
    <<StatusDownloading, StatusFailed>>,
    <<StatusPaused, StatusDownloading>> }

\* C4 (as claimed): every change of a Download's persisted status is one of
\* Pending->Downloading, Downloading->Completed, Downloading->Paused,
\* Downloading->Failed, Paused->Downloading, Failed->Pending with the chunk rows
\* deleted, or a restart out of Completed (the creation of the row aside)
C4_Original ==
  [][\A d \in CliDownloads :
       LET s == downloads[d].status
           t == downloads'[d].status
       IN \/ s = t
          \/ s = NoRow /\ t = StatusPending
          \/ <<s, t>> \in AllowedChanges
          \/ /\ s \in {StatusFailed, StatusCompleted}
             /\ t = StatusPending
             /\ chunks'[d] = <<>>]_vars

RECURSIVE SumRows(_, _)
\* over the rows 1..k: the full length of the completed chunks plus the persisted
\* downloaded value of the others
SumRows(rows, k) ==
  IF k = 0 THEN 0
  ELSE SumRows(rows, k - 1)
       + (IF rows[k].Status = "completed" THEN ChunkLen(rows[k])
          ELSE rows[k].Downloaded)

\* C5 (as claimed): whenever a Download has chunk rows, its persisted
\* downloaded_size equals the sum over the rows of the full length of the
\* completed chunks plus the persisted downloaded value of the incomplete ones
C5_Original ==
  \A d \in CliDownloads :
    (downloads[d].status # NoRow /\ chunks[d] # <<>>)
      => downloads[d].downloaded_size = SumRows(chunks[d], Len(chunks[d]))

\* the total size of a Download: the persisted file_size, and where the row was
\* made without one, the size of the resource
TotalSize(d) ==
  IF downloads[d].file_size > 0 THEN downloads[d].file_size ELSE srv[d].size

\* C6 (as claimed): a Download's persisted downloaded_size never exceeds its
\* total size
C6_Original ==
  \A d \in CliDownloads :
    downloads[d].status # NoRow => downloads[d].downloaded_size <= TotalSize(d)

AllCompleted(rows) ==
  /\ rows # <<>>
  /\ \A k \in DOMAIN rows : rows[k].Status = "completed"

C10_Original ==
  [][\A d \in CliDownloads :
       (att[d].pc = "returned" /\ att[d].err \in {ErrCanceled, ErrDeadline})
         => /\ downloads'[d].status # StatusFailed
            /\ downloads'[d].error_message = ""]_vars

\* C8 (as claimed): while the scheduler runs the submitted Downloads, at most
\* maxConcurrent of them have the persisted status Downloading at the same time
C8_Original ==
  Cardinality({d \in Downloads : downloads[d].status = StatusDownloading})
    <= maxConcurrent

\* C9: every submitted Download is handed to StartDownload at most once, and when
\* StartConcurrent has returned every goroutine is done, every submitted Download
\* was attempted exactly once, and the results hold one entry per submitted
\* Download, at its index, with that Download and the error of its own attempt
C9_FanIn ==
  /\ \A d \in Downloads : batch.calls[d] <= 1
  /\ batch.pc = "results" =>
       /\ Len(batch.results) = Len(batch.list)
       /\ \A i \in DOMAIN batch.list :
            LET d == batch.list[i]
            IN /\ att[d].pc = "done"
               /\ batch.calls[d] = 1
               /\ batch.results[i] = [Download |-> d, Error |-> att[d].err]

\* StartConcurrent has returned results in which one Download failed and
\* another one succeeded
C9_Witness ==
  /\ batch.pc = "results"
  /\ Len(batch.list) = NumDownloads
  /\ \E i, j \in DOMAIN batch.results :
       /\ batch.results[i].Error # ""
       /\ batch.results[j].Error = ""

\* the number of chunk rows marked completed
CompletedCount(rows) ==
  Cardinality({k \in DOMAIN rows : rows[k].Status = "completed"})

\* C11 (as claimed): once a Download is Paused, its status does not become
\* Completed and no further chunk of it is marked completed; it leaves Paused
\* only through a later Start (or a restart, which deletes the chunk rows)
C11_Original ==
  [][\A d \in CliDownloads :
       downloads[d].status = StatusPaused
         => /\ downloads'[d].status # StatusCompleted
            /\ \/ chunks'[d] = <<>>
               \/ CompletedCount(chunks'[d]) <= CompletedCount(chunks[d])]_vars

\* the step is a PauseDownload that has written the status Paused
PauseReturns(d) ==
  /\ downloads[d].status # StatusPaused
  /\ downloads'[d].status = StatusPaused

\* C12 (as claimed): when PauseDownload returns for a Download with a chunk in
\* flight, the persisted downloaded offset of that chunk equals the bytes of
\* the chunk written to the temp file
C12_Original ==
  [][\A d \in CliDownloads :
       (PauseReturns(d) /\ att[d].pc = "read")
         => chunks'[d][att[d].idx].Downloaded
              = att'[d].chunks[att[d].idx].Downloaded]_vars

\* C13: a simple-mode attempt that ends with ErrHTMLContent ends in the very
\* step of its one GET: the step writes no body byte (it leaves the files as
\* they were, or leaves a new temp file that holds nothing) and leaves the
\* destination alone; after it nothing is requested until the caller goes on,
\* and the mirror loop then goes on with the next URL, never the same one
C13_ContentMismatch ==
  [][\A d \in CliDownloads :
       /\ (att[d].pc = "simple" /\ att'[d].pc = "returned"
           /\ att'[d].err = ErrHTMLContent)
            => /\ att'[d].req = FullReq
               /\ files'[d] = files[d] \/ (files'[d].temp /\ files'[d].body = "none")
               /\ files'[d].dest = files[d].dest
               /\ files'[d].dest # "fresh"
       /\ (att[d].pc = "returned" /\ att[d].err = ErrHTMLContent)
            => /\ files'[d].dest = files[d].dest
               /\ att'[d].pc \in {"returned", "idle", "start"}
               /\ att'[d].pc = "start"
                    => att'[d].url = att[d].url + 1
               /\ att'[d].pc # "idle" => att'[d].req = att[d].req]_vars

\* the first URL of a download answered with an HTML page: the attempt ended
\* with ErrHTMLContent, the temp file is there and holds nothing
C13_Witness ==
  \E d \in CliDownloads :
    /\ att[d].pc = "returned"
    /\ att[d].caller = "download"
    /\ att[d].url = 1
    /\ att[d].mode = "simple"
    /\ att[d].err = ErrHTMLContent
    /\ files[d].temp
    /\ files[d].body = "none"
    /\ files[d].dest = "none"

\* the command that called StartDownload goes on after the attempt returned
CallerGoesOn(d) ==
  /\ att[d].pc = "returned"
  /\ \/ att'[d].pc = "start"
     \/ att'[d].pc = "idle" /\ out'.cmd = att[d].caller /\ out'.id = d

\* C20 (as claimed): the download command tries the URLs one at a time in order;
\* after a failure on a URL that is not the last it goes on with the next URL
\* and does not mark the Download Failed; at the first success it stops and the
\* Download is Completed; after the last URL failed the Download is Failed with
\* the text of the last error
C20_Original ==
  [][\A d \in CliDownloads :
       (CallerGoesOn(d) /\ att[d].caller = "download")
         => IF att[d].err = ""
            THEN /\ att'[d].pc = "idle"
                 /\ downloads'[d].status = StatusCompleted
            ELSE IF att[d].url < NumUrls
            THEN /\ att'[d].pc = "start"
                 /\ att'[d].url = att[d].url + 1
                 /\ downloads'[d].status # StatusFailed
            ELSE /\ att'[d].pc = "idle"
                 /\ downloads'[d].status = StatusFailed
                 /\ downloads'[d].error_message = att[d].err]_vars

\* C16: CategorizeError gives RateLimited for 429, NonRetryable for 400, 401,
\* 403, 404, 405, 410 and 413, Retryable for 500, 502, 503 and 504, whatever
\* the error; with any other status it gives Retryable for a nil error and
\* NonRetryable for an error that is no recognised network condition
C16_CategorizeByStatus ==
  categorized.done =>
    LET c == categorized.category
        e == categorized.err
        st == categorized.statusCode
    IN /\ st \in RateLimitedStatus => c = ErrorRateLimited
       /\ st \in NonRetryableStatus => c = ErrorNonRetryable
       /\ st \in RetryableStatus => c = ErrorRetryable
       /\ (st \notin ListedStatus /\ e = NilErr) => c = ErrorRetryable
       /\ (st \notin ListedStatus /\ e \in UnknownErrs) => c = ErrorNonRetryable

\* an unknown error with an unlisted status was categorized NonRetryable
C16_Witness ==
  /\ categorized.done
  /\ categorized.err = ErrCertificate
  /\ categorized.statusCode = 418
  /\ categorized.category = ErrorNonRetryable

\* C17 (as claimed): with no listed status, CategorizeError gives Retryable for
\* a network timeout, connection reset, connection refused, no such host, a
\* generic timeout, an unexpected EOF and a broken pipe
C17_Original ==
  (/\ categorized.done
   /\ categorized.statusCode \notin ListedStatus
   /\ categorized.err \in NetworkErrs)
    => categorized.category = ErrorRetryable

\* C18 (as claimed): CalculateBackoff(attempt, cfg) is within 25% of
\* d = min(BaseDelay * Multiplier^attempt, MaxDelay), the truncation to a whole
\* time unit aside, and so never exceeds 1.25 * MaxDelay
C18_Original ==
  backoff.done =>
    LET d == Min(Grow(backoff.BaseDelay, backoff.Multiplier, backoff.attempt),
                 backoff.MaxDelay)
    IN /\ 4 * backoff.delay > 3 * d - 4
       /\ 4 * backoff.delay <= 5 * d
       /\ 4 * backoff.delay <= 5 * backoff.MaxDelay

\* the call has failed with an error that is not NonRetryable
FailedRetryably(o) ==
  /\ o.err # NilErr
  /\ CategorizeError(o.err, o.statusCode) # ErrorNonRetryable

\* C14: RetryOperation calls the operation at most MaxAttempts times; a call that
\* succeeds or fails NonRetryable is the last one, RetryOperation returns right
\* after it (nil, or that call's error) without a wait; and when MaxAttempts
\* calls have all failed retryably or rate-limited, it returns the error of the
\* last one
C14_RetryLoopBounds ==
  LET n == Len(retry.calls)
      max == retry.MaxAttempts
  IN /\ n <= (IF max > 0 THEN max ELSE 0)
     /\ \A i \in 1 .. n - 1 : FailedRetryably(retry.calls[i])
     /\ Len(retry.waits) <= n
     /\ (n >= 1 /\ retry.calls[n].err = NilErr)
          => /\ retry.pc = "done"
             /\ retry.result = NilErr
             /\ Len(retry.waits) = n - 1
     /\ (n >= 1 /\ retry.calls[n].err # NilErr /\ ~FailedRetryably(retry.calls[n]))
          => /\ retry.pc = "done"
             /\ retry.result = retry.calls[n].err
             /\ Len(retry.waits) = n - 1
     /\ (retry.pc = "done" /\ n >= 1 /\ n = max /\ FailedRetryably(retry.calls[n]))
          => /\ retry.result = retry.calls[n].err
             /\ Len(retry.waits) = n - 1

\* all of 3 attempts failed retryably: two waits, and the last error is returned
C14_Witness ==
  /\ retry.pc = "done"
  /\ retry.MaxAttempts = 3
  /\ Len(retry.calls) = 3
  /\ Len(retry.waits) = 2
  /\ FailedRetryably(retry.calls[3])
  /\ retry.calls[3] # retry.calls[2]
  /\ retry.result = retry.calls[3].err

\* C15: when the context is cancelled while RetryOperation waits between
\* attempts, or before an attempt that the loop would make, the next step of
\* RetryOperation returns the cancellation error: the operation is not called
\* again and the wait is not finished
C15_InterruptibleWaits ==
  [][(/\ retry.cancelled
      /\ \/ retry.pc = "wait"
         \/ retry.pc = "loop" /\ retry.attempt < retry.MaxAttempts)
       => /\ retry'.pc = "done"
          /\ retry'.result = CtxCanceled
          /\ retry'.calls = retry.calls
          /\ retry'.waits = retry.waits]_vars

\* cancelled during the wait after the first attempt: one call, no finished wait
C15_Witness ==
  /\ retry.pc = "done"
  /\ retry.result = CtxCanceled
  /\ Len(retry.calls) = 1
  /\ retry.waits = <<>>
  /\ retry.delay > 0

\* C19 (as claimed): in both transfer modes an attempt ends with a transient
\* network error only out of the retry loop, after the last of MaxAttempts
\* tries of the failed step
C19_Original ==
  [][\A d \in CliDownloads :
       (/\ att[d].pc \in {"simple", "copy", "retry", "read"}
        /\ att'[d].pc = "returned"
        /\ att'[d].err = ErrNetwork)
         => /\ att[d].pc = "retry"
            /\ att[d].attempt = MaxAttempts - 1]_vars

\* C21: a verification of Download d that is not followed by the repair sets
\* verified to whether the digest of the file equals the expected hash,
\* lower-cased and trimmed, and changes nothing else: status, progress, error
\* message, chunk rows, files and the other rows stay; the repair is only
\* taken after a mismatch.
C21_VerifyFrame ==
  [][\A d \in Downloads :
       (out'.cmd = "verify" /\ out'.id = d) =>
         LET core == TrimSpace(MD5Hash(d))
             equal == /\ Len(out'.got) = Len(core)
                      /\ \A i \in DOMAIN core : out'.got[i] = LowerChar(core[i])
         IN IF out'.msg = "Re-downloading"
            THEN ~equal
            ELSE /\ downloads' = [downloads EXCEPT ![d].verified = equal]
                 /\ downloads'[d].status = StatusCompleted
                 /\ (out'.msg = "verified") = equal
                 /\ UNCHANGED <<chunks, files, att, active, ctx>>]_vars

\* a verification has just marked a completed Download with chunk rows as
\* verified, its digest being the stored hash lower-cased and trimmed
C21_Witness ==
  /\ out.cmd = "verify"
  /\ out.msg = "verified"
  /\ out.got # MD5Hash(out.id)
  /\ downloads[out.id].verified
  /\ downloads[out.id].status = StatusCompleted
  /\ chunks[out.id] # <<>>

\* C22: StartDownload takes the chunked path exactly when the probe reported
\* range support and a size strictly above the chunk size, and the simple path
\* otherwise (no range support, a size up to the chunk size, an unknown size);
\* no step of an attempt on the simple path changes a chunk row.
C22_ModeSelection ==
  [][\A d \in Downloads :
       /\ (att[d].pc = "probe" /\ att'[d].pc \in {"chunked", "simple"}) =>
            /\ (att'[d].pc = "chunked") =
                 (att'[d].supportsRange /\ att'[d].FileSize > chunkSize)
            /\ att'[d].mode = att'[d].pc
       /\ (att[d].mode = "simple" /\ att[d].pc # "idle") =>
            chunks'[d] = chunks[d]]_vars

\* a simple transfer from a server that reported range support and no length
\* has ended well and left no chunk row
C22_Witness ==
  \E d \in Downloads :
    /\ att[d].mode = "simple"
    /\ att[d].supportsRange
    /\ att[d].FileSize = UnknownLength
    /\ att[d].pc = "returned"
    /\ att[d].err = ""
    /\ chunks[d] = <<>>
    /\ files[d].dest # "none"

\* the chunk list of a resource of S units cut into chunks of C units, nothing
\* of it downloaded
FreshPlan(rows, S, C) ==
  /\ Len(rows) = (S + C - 1) \div C
  /\ \A k \in DOMAIN rows :
       /\ rows[k].ChunkIndex = k - 1
       /\ rows[k].StartByte = (k - 1) * C
       /\ rows[k].EndByte = Min(k * C, S) - 1
       /\ rows[k].Downloaded = 0
       /\ rows[k].Status = "pending"

\* C23: the chunked transfer that follows a restart (reset, then a fresh
\* start) of a Download of size S with chunk size C works on the chunk list
\* the planner gives for S and C, the list of the first start: the same count,
\* the same (index, start, end), every chunk pending with downloaded 0, in
\* the store and in memory.
C23_RestartPlansAnew ==
  [][\A d \in Downloads :
       (att[d].caller = "restart" /\ att[d].pc = "chunked"
          /\ att'[d].pc = "loop") =>
         /\ FreshPlan(chunks'[d], srv[d].size, chunkSize)
         /\ att'[d].chunks = chunks'[d]]_vars

\* a Download whose chunked transfer had completed is restarted and its
\* chunk rows are back to the fresh plan
C23_Witness ==
  \E d \in Downloads :
    /\ att[d].caller = "restart"
    /\ att[d].pc = "loop"
    /\ files[d].dest = "kept"
    /\ Len(chunks[d]) > 1
    /\ FreshPlan(chunks[d], srv[d].size, chunkSize)

\* C28 (as claimed): a reset is all or nothing: whenever a step has reset the
\* row of a Download (status back to pending), the Download has no chunk row
\* left, whether the reset went through, failed at its second statement or
\* was cut short by a crash.
C28_Original ==
  [][\A d \in Downloads :
       (downloads[d].status \notin {NoRow, StatusPending}
          /\ downloads'[d].status = StatusPending) =>
         chunks'[d] = <<>>]_vars

\* C24 (as claimed): Completed is terminal. No step other than a reset (the
\* restart, or the repair of verify) changes the status of a completed
\* Download; a pause that races with the completion does not turn it into
\* Paused.
C24_Original ==
  [][\A d \in Downloads :
       (downloads[d].status = StatusCompleted
          /\ out'.cmd \notin {"restart", "verify"}) =>
         downloads'[d].status = StatusCompleted]_vars

\* the ids handed to StartConcurrent
Submitted == {batch.list[i] : i \in DOMAIN batch.list}

\* the result stored for Download d
ResultOf(d) == batch.results[IndexOf(batch.list, d)]

\* C25: for every submitted id the callback is told "starting" once, after
\* the slot was taken and before StartDownload has done anything, and then one
\* terminal status once the attempt has returned: "completed" when it returned
\* no error, "failed" otherwise. Nothing is told before "starting", nothing
\* after the terminal status, and nothing for an id that was not submitted.
C25_CallbackProtocol ==
  \A d \in Downloads :
    LET ev == batch.events[d]
    IN /\ d \notin Submitted => ev = <<>>
       /\ Len(ev) <= 2
       /\ Len(ev) >= 1 => ev[1] = "starting"
       /\ (d \in Submitted /\ batch.pc = "running") =>
            /\ (ev = <<>>) = (att[d].pc = "queued")
            /\ (Len(ev) = 1) = (att[d].pc \notin {"queued", "done"})
            /\ (Len(ev) = 2) = (att[d].pc = "done")
            /\ Len(ev) = 1 => batch.sem >= 1
       /\ Len(ev) = 2 =>
            /\ ev[2] \in {"completed", "failed"}
            /\ (ev[2] = "completed") = (ResultOf(d).Error = "")
            /\ ResultOf(d).Download = d
       /\ (d \in Submitted /\ batch.pc \in {"results", "done"}) => Len(ev) = 2

\* StartConcurrent has returned for a batch in which one Download was told
\* completed and another failed
C25_Witness ==
  /\ batch.pc = "results"
  /\ \E d1, d2 \in Submitted :
       /\ batch.events[d1] = <<"starting", "completed">>
       /\ batch.events[d2] = <<"starting", "failed">>

\* the Downloads whose goroutine is between "sem <- struct{}{}" and "<-sem"
InSlot ==
  {d \in Downloads :
     att[d].caller = "batch" /\ att[d].pc \notin {"idle", "queued", "done"}}

\* C26: at most maxConcurrent Downloads are between the acquisition and the
\* release of a slot; the slots held are exactly those of the goroutines
\* that have acquired one and whose attempt has not ended, so no StartDownload
\* runs without a slot and every slot is released when its attempt ends, with
\* or without an error; while StartConcurrent runs some goroutine can take a
\* step or the wait is over, whatever the size of the batch, and every slot is
\* free when StartConcurrent has returned.
C26_SlotDiscipline ==
  /\ Cardinality(InSlot) <= maxConcurrent
  /\ batch.sem = Cardinality(InSlot)
  /\ \A d \in Downloads :
       (d \in active \/ att[d].pc \in {"probe", "chunked", "simple"})
         => d \in InSlot
  /\ batch.pc = "running" =>
       \/ ENABLED StartConcurrentReturn
       \/ \E d \in Submitted :
            ENABLED (Acquire(d) \/ AttemptStep(d) \/ WorkerDone(d))
  /\ batch.pc \in {"results", "done"} => batch.sem = 0

\* a batch larger than maxConcurrent: every slot is taken, a goroutine waits
\* for one, and an attempt that failed is about to release its slot
C26_Witness ==
  /\ batch.pc = "running"
  /\ Len(batch.list) > maxConcurrent
  /\ batch.sem = maxConcurrent
  /\ \E d \in Downloads : att[d].pc = "queued"
  /\ \E d \in InSlot : att[d].pc = "returned" /\ att[d].err # ""

\* units of chunk k of Download d written to the temp file by the running
\* attempt and not reflected in the downloaded column of the chunk row
Unpersisted(d, k) == att[d].chunks[k].Downloaded - chunks[d][k].Downloaded

\* C27 (as claimed): while a chunk is read, the bytes written to the temp file
\* and not yet reflected in the persisted downloaded offset of the chunk never
\* exceed the checkpoint interval plus one read buffer (256 KiB + 32 KiB),
\* whatever the sizes of the reads.
C27_Original ==
  \A d \in Downloads :
    (att[d].pc = "read" /\ att[d].idx \in DOMAIN chunks[d]) =>
      BuffersPerUnit * Unpersisted(d, att[d].idx)
        <= BuffersPerUnit * CheckpointInterval + 1

\* StartDownload is running for Download d: it was called and has not returned
Running(d) == att[d].pc \notin {"idle", "queued", "start", "returned", "done"}

\* C29: a running StartDownload has its cancel function in the registry from
\* its first step on, and when StartDownload has returned, with or without
\* an error, by whatever path, the registry holds no entry for the Download.
C29_RegistryLifetime ==
  /\ [](\A d \in Downloads : (d \in active) = Running(d))
  /\ [][\A d \in Downloads :
          (att[d].pc = "start" /\ att'[d].pc \notin {"start", "idle"}) =>
            (d \in active' \/ (att'[d].pc = "returned" /\ att'[d].err # ""))]_vars

\* an attempt cancelled through its registered handle has returned and its
\* entry is gone from the registry
C29_Witness ==
  \E d \in Downloads :
    /\ att[d].pc = "returned"
    /\ att[d].err = ErrCanceled
    /\ att[d].mode = "chunked"
    /\ d \notin active

\* the Downloads a step pauses: it cancels their context or writes their
\* status Paused
PausedBy ==
  {d \in Downloads :
     \/ ctx[d].err # ErrCanceled /\ ctx'[d].err = ErrCanceled
     \/ downloads[d].status # StatusPaused
          /\ downloads'[d].status = StatusPaused}

\* C30: PauseDownload(id) cancels the handle of id and of no other Download
\* and writes the status of id and of no other Download: the contexts, rows,
\* attempts, chunk rows and files of the other Downloads run by the same
\* Manager, and the registry, are as before.
C30_PauseFrame ==
  [][\A d \in PausedBy :
       /\ PausedBy = {d}
       /\ downloads' = [downloads EXCEPT
                          ![d] = UpdateStatus(downloads[d], StatusPaused, "")]
       /\ ctx' = [ctx EXCEPT ![d].err = IF d \in active /\ @ = ""
                                        THEN ErrCanceled ELSE @]
       /\ UNCHANGED <<active, att, chunks, files, batch>>]_vars

\* one Download was paused and cancelled while its sibling on the same
\* Manager goes on downloading, its context live
C30_Witness ==
  \E d, e \in Downloads :
    /\ d # e
    /\ {d, e} \subseteq active
    /\ downloads[d].status = StatusPaused
    /\ ctx[d].err = ErrCanceled
    /\ downloads[e].status = StatusDownloading
    /\ ctx[e].err = ""

\* C31: the chunks of a Download are fetched one at a time in the order of
\* their index: the chunk in flight is the first chunk row that is not
\* completed, a request is issued for chunk k only when every chunk row below
\* k is marked completed, and the requests of one attempt never go back to a
\* lower chunk.
C31_SequentialChunks ==
  /\ [](\A d \in Downloads :
          att[d].pc \in {"retry", "wait", "read"} =>
            /\ att[d].idx = FirstIncomplete(chunks[d])
            /\ chunks[d][att[d].idx].ChunkIndex = att[d].idx - 1)
  /\ [][\A d \in Downloads :
          (Requests(d) /\ att[d].mode = "chunked") =>
            /\ \A j \in 1 .. att'[d].idx - 1 :
                 chunks[d][j].Status = "completed"
            /\ att'[d].req.last = chunks[d][att'[d].idx].EndByte
            /\ att[d].req # NoReq => att'[d].req.last >= att[d].req.last]_vars

\* the first chunk was fetched and marked completed by this attempt, and the
\* request for the second chunk is out
C31_Witness ==
  \E d \in Downloads :
    /\ att[d].pc = "read"
    /\ att[d].idx = 2
    /\ att[d].chunks[1].Status # "completed"
    /\ chunks[d][1].Status = "completed"
    /\ att[d].req = RangeReq(chunks[d][2].StartByte, chunks[d][2].EndByte)

\* C32 (as claimed): a Download whose transfer goes through the simple path
\* has no chunk rows, and a Download has chunk rows only while its transfer
\* is planned through the chunked path.
C32_Original ==
  \A d \in Downloads :
    (att[d].pc # "idle" /\ att[d].mode # "") =>
      ((chunks[d] # <<>>) => att[d].mode = "chunked")

\* C33 (as claimed): while a Download with chunk rows is fetched in chunked
\* mode, its chunk rows partition [0, S), S being the size the probe of this
\* attempt reported, into ceil(S / chunkSize) contiguous intervals in index
\* order, the last one ending at S - 1.
C33_Original ==
  \A d \in Downloads :
    (att[d].mode = "chunked" /\ att[d].pc \in {"loop", "retry", "wait", "read"}
       /\ chunks[d] # <<>>) =>
      LET rows == chunks[d]
          S == att[d].FileSize
      IN /\ Len(rows) = (S + chunkSize - 1) \div chunkSize
         /\ rows[1].StartByte = 0
         /\ \A k \in 2 .. Len(rows) : rows[k].StartByte = rows[k - 1].EndByte + 1
         /\ rows[Len(rows)].EndByte = S - 1

\* C34: when a call of the operation inside RetryOperation ends with HTTP 429
\* and it is not the last attempt, a wait follows and its length is exactly
\* MaxDelay, whatever the number of the attempt; when nothing cancels it, the
\* next attempt follows after that wait.
C34_RateLimitWait ==
  [][/\ (retry.pc = "loop" /\ retry'.calls # retry.calls
           /\ retry'.statusCode = 429) =>
          IF WaitFollows(retry.attempt, retry.MaxAttempts)
          THEN /\ retry'.pc = "wait"
               /\ retry'.delay = RetryDelays.MaxDelay
               /\ retry'.attempt = retry.attempt
          ELSE retry'.pc = "loop" /\ retry'.waits = retry.waits
     /\ (retry.pc = "wait" /\ retry.statusCode = 429
           /\ retry'.waits # retry.waits) =>
          /\ retry'.waits = Append(retry.waits, RetryDelays.MaxDelay)
          /\ retry'.attempt = retry.attempt + 1]_vars

\* the second attempt was answered 429 and the second wait, of MaxDelay like
\* the first, is over
C34_Witness ==
  /\ Len(retry.calls) = 2
  /\ retry.calls[1].statusCode = 429
  /\ retry.calls[2].statusCode = 429
  /\ retry.waits = <<RetryDelays.MaxDelay, RetryDelays.MaxDelay>>
  /\ retry.pc = "loop"

\* the attempt of d has returned because the temp file could not be opened or
\* truncated by downloadChunked: the path was chosen, the rows are stored and
\* no chunk was begun
TempFileFailed(d) ==
  /\ att[d].pc = "returned"
  /\ att[d].err = ErrStorage
  /\ att[d].id # 0
  /\ att[d].mode = "chunked"
  /\ att[d].idx = 0

\* C35 (as claimed): a failure to create, truncate, seek or write the temp
\* file ends the attempt at once and nothing is requested for the Download
\* afterwards: the attempt that failed sent no request after the failure, and
\* the command that made it does not go on to an attempt on another URL
C35_Original ==
  [][\A d \in Downloads :
       /\ (att[d].pc = "chunked" /\ att'[d].err = ErrStorage) =>
            att'[d].pc = "returned" /\ att'[d].req = att[d].req
       /\ TempFileFailed(d) => att'[d].pc # "start"]_vars

\* C36 (as claimed): the probe reports range support when the HEAD answer
\* carries Accept-Ranges: bytes; when the HEAD request is refused or its answer
\* says nothing about ranges the GET with Range: bytes=0-0 decides, so that
\* support is reported exactly when the remote end answers that GET with 206
C36_Original ==
  [][\A d \in Downloads :
       (att[d].pc = "probe" /\ att'[d].pc \in {"chunked", "simple"}) =>
         att'[d].supportsRange = (srv[d].advert \/ srv[d].ranges)]_vars

\* C37 (as claimed): when a chunk is marked completed the bytes written for it
\* are as many as its length and lie inside [StartByte, EndByte], whether the
\* ranged request was answered 206 or 200 and wherever the body ended
C37_Original ==
  [][\A d \in Downloads :
       (att[d].pc = "read" /\ att'[d].pc = "loop") =>
         LET c == att[d].chunks[att[d].idx]
         IN /\ chunks'[d][att[d].idx].Status = "completed"
            /\ c.Downloaded = ChunkLen(c)
            /\ c.StartByte + c.Downloaded - 1 <= c.EndByte]_vars

\* C38 (as claimed): a ranged request never asks for an empty or inverted
\* range, first <= last, because the stored Downloaded of a chunk that is not
\* completed is always smaller than the length of the chunk
C38_Original ==
  \A d \in Downloads :
    /\ att[d].req.kind = "range" => att[d].req.first <= att[d].req.last
    /\ \A k \in DOMAIN chunks[d] :
         chunks[d][k].Status # "completed" =>
           chunks[d][k].Downloaded < ChunkLen(chunks[d][k])

\* C39 (as claimed): whatever MaxAttempts is, zero and negative values
\* included, RetryOperation returns nil only when the operation was called and
\* its last call returned nil
C39_Original ==
  (retry.pc = "done" /\ retry.result = NilErr) =>
    /\ Len(retry.calls) >= 1
    /\ retry.calls[Len(retry.calls)].err = NilErr

\* C40 (as claimed): a Download whose row has verified = true is completed and
\* the file at its destination is there; a reset or a restart does not leave
\* verified = true behind
C40_Original ==
  \A d \in Downloads :
    downloads[d].verified =>
      /\ downloads[d].status = StatusCompleted
      /\ files[d].dest # "none"

====
